---- MODULE Spec2Model ----
(***************************************************************************)
(* JWT authentication plugin of the conductor gateway                      *)
(* (plugins/jwt_auth/src/plugin.rs): credential lookup, key-set matching,  *)
(* per-key verification, the authenticate pipeline, the error-to-status    *)
(* mapping and the pre-request hook with its lock on the request context.  *)
(*                                                                         *)
(* Strings are sequences of atoms.  The atom "T" stands for the compact    *)
(* serialization of the JSON web token whose content is the variable jwt;  *)
(* "B" is the configured header prefix, "b" another scheme word, " " a     *)
(* blank, "x80" a byte outside visible ASCII (HeaderValue::to_str fails on *)
(* it), "q" and "s" other credential text.                                 *)
(***************************************************************************)
EXTENDS Integers, Sequences, FiniteSets, TLC

VARIABLES
  config,        \* JwtAuthPluginConfig (self.config)
  req,           \* the downstream ConductorHttpRequest
  jwt,           \* content of the token whose serialization is the atom "T"
  jwks,          \* candidate key sets, in order (Vec<&JwkSet>)
  err_in,        \* a JwtError handed to StatusCode::from
  providers,     \* self.providers: the key set each configured provider serves
  fetch,         \* per provider, the state of its retrieve_jwk_set() future in join_all
  ctx_lock,      \* the RwLock around the RequestExecutionContext
  ctx,           \* the RequestExecutionContext: stored claims, stored token, short-circuit response
  construction,  \* JwtAuthPlugin::create: the configured providers, which of them can prefetch, the loop position, the prefetches made
  completed,     \* the providers whose retrieval for this request has completed, in order of completion
  upstream_req,  \* the headers appended to the upstream ConductorHttpRequest
  pc,            \* position of the operation being applied
  result         \* value returned by the operation applied

vars == <<config, req, jwt, jwks, err_in, providers, fetch, ctx_lock, ctx,
          construction, completed, upstream_req, pc, result>>
hookVars == <<providers, fetch, ctx_lock, ctx, construction, completed, upstream_req>>

----------------------------------------------------------------------------
(* Bounds of the model *)

MaxRules == 2
MaxCookies == 2
MaxMatchKeys == 3
MaxVerifyKeys == 3
MaxAudiences == 2
MaxAuthKeys == 2
MaxErrors == 2
MaxProviderKeys == 2

----------------------------------------------------------------------------
(* Option and Result *)

None == {}
Some(x) == {x}
IsSome(o) == o # {}
Unwrap(o) == CHOOSE x \in o : TRUE
Options(S) == {None} \cup {Some(x) : x \in S}

Ok(v) == [ok |-> TRUE, val |-> v]
Err(e) == [ok |-> FALSE, err |-> e]
Pending == [pending |-> TRUE]

MinOf(S) == CHOOSE x \in S : \A y \in S : x <= y
MaxOf(S) == CHOOSE x \in S : \A y \in S : y <= x

SeqsUpTo(S, n) == UNION {[1..k -> S] : k \in 0..n}

----------------------------------------------------------------------------
(* Strings of atoms *)

\* HeaderValue::to_str: only visible ASCII converts
to_str_ok(v) == \A i \in 1..Len(v) : v[i] # "x80"

\* str::strip_prefix
starts_with(s, p) == Len(p) <= Len(s) /\ SubSeq(s, 1, Len(p)) = p
strip_prefix(s, p) == IF starts_with(s, p) THEN Some(SubSeq(s, Len(p) + 1, Len(s))) ELSE None

\* str::trim
trim(s) ==
  LET keep == {i \in 1..Len(s) : s[i] # " "}
  IN IF keep = {} THEN <<>> ELSE SubSeq(s, MinOf(keep), MaxOf(keep))

----------------------------------------------------------------------------
(* Credential lookup: JwtAuthPlugin::lookup *)

HeaderLoc(name, prefix) == [kind |-> "Header", name |-> name, prefix |-> prefix]
QueryParamLoc(name) == [kind |-> "QueryParam", name |-> name, prefix |-> None]
CookieLoc(name) == [kind |-> "Cookie", name |-> name, prefix |-> None]

Continue == [done |-> FALSE]
Return(r) == [done |-> TRUE, res |-> r]

\* a faulty prefix arm: a value that lacks the prefix is handed to the next rule
HeaderArmFallsThrough(loc, request) ==
  LET found == request.headers[loc.name]
  IN IF ~IsSome(found) THEN Continue
     ELSE LET header_value == Unwrap(found)
          IN IF ~to_str_ok(header_value) THEN Return(Err("FailedToStringifyHeader"))
             ELSE IF ~IsSome(loc.prefix) THEN Return(Ok(header_value))
             ELSE LET stripped == strip_prefix(header_value, Unwrap(loc.prefix))
                  IN IF IsSome(stripped) THEN Return(Ok(trim(Unwrap(stripped))))
                     ELSE Continue

\* a faulty header arm: the prefixed value is returned untrimmed
HeaderArmNoTrim(loc, request) ==
  LET found == request.headers[loc.name]
  IN IF ~IsSome(found) THEN Continue
     ELSE LET header_value == Unwrap(found)
          IN IF ~to_str_ok(header_value) THEN Return(Err("FailedToStringifyHeader"))
             ELSE IF ~IsSome(loc.prefix) THEN Return(Ok(header_value))
             ELSE LET stripped == strip_prefix(header_value, Unwrap(loc.prefix))
                  IN IF IsSome(stripped) THEN Return(Ok(Unwrap(stripped)))
                     ELSE Return(Err("MismatchedPrefix"))

\* JwtAuthPluginLookupLocation::Header { name, prefix }
HeaderArm(loc, request) ==
  LET found == request.headers[loc.name]
  IN IF ~IsSome(found) THEN Continue
     ELSE LET header_value == Unwrap(found)
          IN IF ~to_str_ok(header_value) THEN Return(Err("FailedToStringifyHeader"))
             ELSE IF ~IsSome(loc.prefix) THEN Return(Ok(header_value))
             ELSE LET stripped == strip_prefix(header_value, Unwrap(loc.prefix))
                  IN IF IsSome(stripped) THEN Return(Ok(trim(Unwrap(stripped))))
                     ELSE Return(Err("MismatchedPrefix"))

\* JwtAuthPluginLookupLocation::QueryParam { name }
QueryParamArm(loc, request) ==
  LET query_value == request.query[loc.name]
  IN IF IsSome(query_value) THEN Return(Ok(Unwrap(query_value))) ELSE Continue


\* a faulty cookie rule: the first segment that fails to parse ends the scan
\* of the cookie header
CookieArmStopsAtBadSegment(loc, request) ==
  LET cookie_raw == request.cookie
  IN IF ~IsSome(cookie_raw) THEN Continue
     ELSE LET c == Unwrap(cookie_raw)
          IN IF ~c.to_str_ok THEN Continue
             ELSE LET hits == {i \in 1..Len(c.segments) :
                                 /\ \A k \in 1..i : c.segments[k].parse_ok
                                 /\ c.segments[i].name = loc.name}
                  IN IF hits = {} THEN Continue
                     ELSE Return(Ok(c.segments[MinOf(hits)].value))

\* JwtAuthPluginLookupLocation::Cookie { name }: the cookie header is held as
\* the segments that split(';') gives, each with the outcome of
\* Cookie::parse_encoded and its trimmed name and value
CookieArm(loc, request) ==
  LET cookie_raw == request.cookie
  IN IF ~IsSome(cookie_raw) THEN Continue
     ELSE LET c == Unwrap(cookie_raw)
          IN IF ~c.to_str_ok THEN Continue
             ELSE LET hits == {i \in 1..Len(c.segments) :
                                 c.segments[i].parse_ok /\ c.segments[i].name = loc.name}
                  IN IF hits = {} THEN Continue
                     ELSE Return(Ok(c.segments[MinOf(hits)].value))

LookupArm(loc, request) ==
  CASE loc.kind = "Header" -> HeaderArm(loc, request)
    [] loc.kind = "QueryParam" -> QueryParamArm(loc, request)
    [] loc.kind = "Cookie" -> CookieArm(loc, request)

RECURSIVE lookupFrom(_, _, _)
lookupFrom(locations, i, request) ==
  IF i > Len(locations) THEN Err("LookupFailed")
  ELSE LET step == LookupArm(locations[i], request)
       IN IF step.done THEN step.res ELSE lookupFrom(locations, i + 1, request)

lookup(locations, request) == lookupFrom(locations, 1, request)

----------------------------------------------------------------------------
(* Tokens, keys and errors *)

\* serde_json::Value of a claim, or its absence from the payload
JAbsent == [t |-> "absent", s |-> "", a |-> <<>>]
JString(x) == [t |-> "string", s |-> x, a |-> <<>>]
JNumber == [t |-> "number", s |-> "", a |-> <<>>]
JArray(items) == [t |-> "array", s |-> "", a |-> items]

\* exp is "valid", "expired" or "missing"
Claims(iss, aud, exp) == [iss |-> iss, aud |-> aud, exp |-> exp]

\* a token: whether its header decodes, the header's alg and kid, the key
\* material that signed it, and the signed payload
Jwt(header_ok, alg, kid, signer, claims) ==
  [header_ok |-> header_ok, alg |-> alg, kid |-> kid, signer |-> signer, claims |-> claims]

NoJwt == Jwt(FALSE, "", None, "", Claims(JAbsent, JAbsent, "missing"))

\* the token a string deserializes to: only "T" is the serialization of jwt
Parse(token) == IF token = <<"T">> THEN jwt ELSE NoJwt

\* jsonwebtoken::jwk::Jwk: common.key_id, common.key_algorithm, and the key
\* material ("h1", "h2": octet keys; "r1": an RSA key; "bad": parameters that
\* give no decoding key)
Jwk(key_id, key_algorithm, material) ==
  [key_id |-> key_id, key_algorithm |-> key_algorithm, material |-> material]
JwkSet(keys) == [keys |-> keys]

\* jsonwebtoken::Algorithm, and the KeyAlgorithm names it parses
Algorithms == {"HS256", "RS256"}
AlgorithmFamily(alg) == IF alg = "HS256" THEN "Hmac" ELSE "Rsa"
KeyFamily(material) == IF material \in {"h1", "h2"} THEN "Hmac" ELSE "Rsa"

\* Algorithm::from_str(&key_alg.to_string())
AlgorithmFromStr(key_alg) ==
  IF key_alg \in Algorithms THEN Ok(key_alg) ELSE Err("InvalidAlgorithmName")

\* enum JwtError
JwtError(kind, detail, errors) == [kind |-> kind, detail |-> detail, errors |-> errors]
LookupFailed(e) == JwtError("LookupFailed", e, <<>>)
InvalidJwtHeader(e) == JwtError("InvalidJwtHeader", e, <<>>)
InvalidDecodingKey(e) == JwtError("InvalidDecodingKey", e, <<>>)
FailedToLocateProvider == JwtError("FailedToLocateProvider", "", <<>>)
JwkMissingAlgorithm == JwtError("JwkMissingAlgorithm", "", <<>>)
JwkAlgorithmNotSupported(e) == JwtError("JwkAlgorithmNotSupported", e, <<>>)
FailedToDecodeToken(e) == JwtError("FailedToDecodeToken", e, <<>>)
AllProvidersFailedToDecode(errors) == JwtError("AllProvidersFailedToDecode", "", errors)
HTTPRequestParsingError(e) == JwtError("HTTPRequestParsingError", e, <<>>)

----------------------------------------------------------------------------
(* Key-set matching: JwtAuthPlugin::find_matching_jwks *)

\* for jwk in jwks { for key in &jwk.keys { .. } }: the keys in scan order,
\* each with the index of its set
RECURSIVE KeysInOrderFrom(_, _)
KeysInOrderFrom(sets, i) ==
  IF i > Len(sets) THEN <<>>
  ELSE [k \in 1..Len(sets[i].keys) |-> [set |-> i, key |-> sets[i].keys[k]]]
         \o KeysInOrderFrom(sets, i + 1)

KeysInOrder(sets) == KeysInOrderFrom(sets, 1)

\* the first loop: the set of the first key whose key_id equals the header's kid
KidScan(jwt_header, sets) ==
  LET scan == KeysInOrder(sets)
      hits == {p \in 1..Len(scan) :
                 IsSome(jwt_header.kid) /\ Unwrap(jwt_header.kid) \in scan[p].key.key_id}
  IN IF hits = {} THEN None ELSE Some(scan[MinOf(hits)].set)

\* the second loop: the set of the first key whose algorithm equals the
\* header's alg; a declared algorithm that does not parse ends the scan
RECURSIVE AlgScanFrom(_, _, _)
AlgScanFrom(jwt_header, scan, p) ==
  IF p > Len(scan) THEN Err(FailedToLocateProvider)
  ELSE LET key == scan[p].key
       IN IF IsSome(key.key_algorithm)
          THEN LET key_alg_cmp == AlgorithmFromStr(Unwrap(key.key_algorithm))
               IN IF ~key_alg_cmp.ok THEN Err(JwkAlgorithmNotSupported(key_alg_cmp.err))
                  ELSE IF key_alg_cmp.val = jwt_header.alg THEN Ok(scan[p].set)
                  ELSE AlgScanFrom(jwt_header, scan, p + 1)
          ELSE AlgScanFrom(jwt_header, scan, p + 1)

\* a faulty matcher: the algorithm scan runs before the key-id scan
FindMatchingAlgFirst(jwt_header, sets) ==
  LET by_alg == AlgScanFrom(jwt_header, KeysInOrder(sets), 1)
      by_kid == KidScan(jwt_header, sets)
  IN IF by_alg.ok THEN by_alg
     ELSE IF IsSome(by_kid) THEN Ok(Unwrap(by_kid)) ELSE by_alg

\* the result is the index of the matched set in jwks
find_matching_jwks(jwt_header, sets) ==
  LET by_kid == KidScan(jwt_header, sets)
  IN IF IsSome(by_kid) THEN Ok(Unwrap(by_kid))
     ELSE AlgScanFrom(jwt_header, KeysInOrder(sets), 1)

----------------------------------------------------------------------------
(* Verification against one key: JwtAuthPlugin::try_decode_from_jwk *)

\* DecodingKey::from_jwk
DecodingKeyFromJwk(jwk) ==
  IF jwk.material = "bad" THEN Err("InvalidKeyFormat") ELSE Ok(jwk.material)

\* how the library reads an iss or aud claim: a string, an array of strings,
\* or a value it cannot read and leaves unchecked
TryParse(v) ==
  CASE v.t = "absent" -> "NotPresent"
    [] v.t = "string" -> "Single"
    [] v.t = "array" /\ (\A i \in 1..Len(v.a) : v.a[i].t = "string") -> "Multiple"
    [] OTHER -> "FailedToParse"

Intersects(reference, given) == \E i \in 1..Len(given.a) : given.a[i].s \in reference

\* the library's claim validation under Validation::new(alg) with
\* set_issuer / set_audience: exp is required and checked, an aud claim is
\* refused when no audience is set, iss and aud are compared when they parse
Validate(claims, validation) ==
  IF claims.exp = "missing" THEN Err("MissingRequiredClaim")
  ELSE IF claims.exp = "expired" THEN Err("ExpiredSignature")
  ELSE IF /\ IsSome(validation.iss)
          /\ \/ TryParse(claims.iss) = "Single" /\ claims.iss.s \notin Unwrap(validation.iss)
             \/ TryParse(claims.iss) = "Multiple"
                  /\ ~Intersects(Unwrap(validation.iss), claims.iss)
       THEN Err("InvalidIssuer")
  ELSE IF TryParse(claims.aud) \in {"Single", "Multiple"} /\ ~IsSome(validation.aud)
       THEN Err("InvalidAudience")
  ELSE IF /\ IsSome(validation.aud)
          /\ \/ TryParse(claims.aud) = "Single" /\ claims.aud.s \notin Unwrap(validation.aud)
             \/ TryParse(claims.aud) = "Multiple"
                  /\ ~Intersects(Unwrap(validation.aud), claims.aud)
       THEN Err("InvalidAudience")
  ELSE Ok(claims)

\* decode::<Value>(token, &decoding_key, &validation)
decode(token, decoding_key, validation) ==
  LET t == Parse(token)
  IN IF KeyFamily(decoding_key) # AlgorithmFamily(validation.alg) THEN Err("InvalidAlgorithm")
     ELSE IF ~t.header_ok THEN Err("InvalidToken")
     ELSE IF t.alg # validation.alg THEN Err("InvalidAlgorithm")
     ELSE IF t.signer # decoding_key THEN Err("InvalidSignature")
     ELSE LET checked == Validate(t.claims, validation)
          IN IF checked.ok
             THEN Ok([header |-> [alg |-> t.alg, kid |-> t.kid], claims |-> t.claims])
             ELSE checked

\* match (&self.config.issuers, token_data.claims.get("iss"))
IssuerCheck(issuers, claims) ==
  IF IsSome(issuers) /\ claims.iss.t = "string"
  THEN IF claims.iss.s \in Unwrap(issuers) THEN Ok(TRUE)
       ELSE Err(FailedToDecodeToken("InvalidIssuer"))
  ELSE IF IsSome(issuers) /\ claims.iss.t = "absent"
       THEN Err(FailedToDecodeToken("InvalidIssuer"))
  ELSE Ok(TRUE)

\* match (&self.config.audiences, token_data.claims.get("aud"))
AudienceCheck(audiences, claims) ==
  IF IsSome(audiences) /\ claims.aud.t = "array"
  THEN LET all_valid == \A i \in 1..Len(claims.aud.a) :
                           claims.aud.a[i].t = "string" /\ claims.aud.a[i].s \in Unwrap(audiences)
       IN IF all_valid THEN Ok(TRUE) ELSE Err(FailedToDecodeToken("InvalidAudience"))
  ELSE IF IsSome(audiences) /\ claims.aud.t = "absent"
       THEN Err(FailedToDecodeToken("InvalidAudience"))
  ELSE Ok(TRUE)

try_decode_from_jwk(token, jwk) ==
  LET decoding_key == DecodingKeyFromJwk(jwk)
  IN IF ~decoding_key.ok THEN Err(InvalidDecodingKey(decoding_key.err))
     ELSE IF ~IsSome(jwk.key_algorithm) THEN Err(JwkMissingAlgorithm)
     ELSE LET alg == AlgorithmFromStr(Unwrap(jwk.key_algorithm))
          IN IF ~alg.ok THEN Err(JwkAlgorithmNotSupported(alg.err))
             ELSE LET validation == [alg |-> alg.val, iss |-> config.issuers,
                                     aud |-> config.audiences]
                      token_data == decode(token, decoding_key.val, validation)
                  IN IF ~token_data.ok THEN Err(FailedToDecodeToken(token_data.err))
                     ELSE LET iss_checked == IssuerCheck(config.issuers, token_data.val.claims)
                              aud_checked == AudienceCheck(config.audiences, token_data.val.claims)
                          IN IF ~iss_checked.ok THEN iss_checked
                             ELSE IF ~aud_checked.ok THEN aud_checked
                             ELSE token_data

----------------------------------------------------------------------------
(* Verification against a key set: JwtAuthPlugin::decode_and_validate_token *)

DecodeAttempts(token, keys) == [i \in 1..Len(keys) |-> try_decode_from_jwk(token, keys[i])]

\* a faulty aggregate: only the last failure is kept
DecodeAndValidateLastError(token, keys) ==
  LET decode_attempts == DecodeAttempts(token, keys)
      successes == {i \in 1..Len(keys) : decode_attempts[i].ok}
  IN IF successes # {} THEN decode_attempts[MinOf(successes)]
     ELSE Err(AllProvidersFailedToDecode(
                IF keys = <<>> THEN <<>> ELSE <<decode_attempts[Len(keys)].err>>))

decode_and_validate_token(token, keys) ==
  LET decode_attempts == DecodeAttempts(token, keys)
      successes == {i \in 1..Len(keys) : decode_attempts[i].ok}
  IN IF successes # {} THEN decode_attempts[MinOf(successes)]
     ELSE Err(AllProvidersFailedToDecode([i \in 1..Len(keys) |-> decode_attempts[i].err]))

----------------------------------------------------------------------------
(* The pipeline: JwtAuthPlugin::authenticate *)

\* jsonwebtoken::decode_header
decode_header(token) ==
  LET t == Parse(token)
  IN IF t.header_ok THEN Ok([alg |-> t.alg, kid |-> t.kid]) ELSE Err("InvalidToken")

authenticate(sets, request) ==
  LET found == lookup(config.lookup_locations, request)
  IN IF ~found.ok THEN Err(LookupFailed(found.err))
     ELSE LET token == found.val
              header == decode_header(token)
          IN IF ~header.ok THEN Err(InvalidJwtHeader(header.err))
             ELSE LET jwk == find_matching_jwks(header.val, sets)
                  IN IF ~jwk.ok THEN jwk
                     ELSE LET token_data == decode_and_validate_token(token, sets[jwk.val].keys)
                          IN IF token_data.ok
                             THEN Ok([token_data |-> token_data.val, token |-> token])
                             ELSE token_data

----------------------------------------------------------------------------
(* impl From<JwtError> for StatusCode *)

BAD_REQUEST == 400
UNAUTHORIZED == 401
INTERNAL_SERVER_ERROR == 500

\* a faulty mapping: a failure to locate a provider is reported as a client error
StatusCodeLocateAsBadRequest(val) ==
  CASE val.kind \in {"InvalidJwtHeader", "LookupFailed", "JwkAlgorithmNotSupported",
                     "HTTPRequestParsingError", "FailedToLocateProvider"} -> BAD_REQUEST
    [] val.kind \in {"JwkMissingAlgorithm", "InvalidDecodingKey"} -> INTERNAL_SERVER_ERROR
    [] val.kind \in {"AllProvidersFailedToDecode", "FailedToDecodeToken"} -> UNAUTHORIZED

StatusCode(val) ==
  CASE val.kind \in {"InvalidJwtHeader", "LookupFailed", "JwkAlgorithmNotSupported",
                     "HTTPRequestParsingError"} -> BAD_REQUEST
    [] val.kind \in {"JwkMissingAlgorithm", "FailedToLocateProvider", "InvalidDecodingKey"} ->
         INTERNAL_SERVER_ERROR
    [] val.kind \in {"AllProvidersFailedToDecode", "FailedToDecodeToken"} -> UNAUTHORIZED

----------------------------------------------------------------------------
(* Requests and configurations *)

HeaderNames == {"authorization"}
QueryNames == {"jwt"}
Prefix == <<"B">>

Locations ==
  {HeaderLoc("authorization", None), HeaderLoc("authorization", Some(Prefix)),
   QueryParamLoc("jwt"), CookieLoc("jwt"), CookieLoc("sid")}

HeaderValues ==
  {<<"B", " ", "T">>, <<"B", " ", "T", " ">>, <<"B", "T">>, <<"B">>, <<"T">>,
   <<" ", "T">>, <<"b", " ", "T">>, <<"x80">>, <<"B", " ", "x80">>}
QueryValues == {<<"T">>, <<"q">>}

CookieSegment(parse_ok, name, value) == [parse_ok |-> parse_ok, name |-> name, value |-> value]
CookieSegments ==
  {CookieSegment(FALSE, "", <<>>), CookieSegment(TRUE, "jwt", <<"T">>),
   CookieSegment(TRUE, "sid", <<"s">>)}
CookieHeader(ok, segments) == [to_str_ok |-> ok, segments |-> segments]
CookieHeaders ==
  {CookieHeader(FALSE, <<>>)}
    \cup {CookieHeader(TRUE, s) : s \in SeqsUpTo(CookieSegments, MaxCookies)}

Request(headers, query, cookie) == [headers |-> headers, query |-> query, cookie |-> cookie]
Requests ==
  {Request(h, q, c) : h \in [HeaderNames -> Options(HeaderValues)],
                      q \in [QueryNames -> Options(QueryValues)],
                      c \in Options(CookieHeaders)}
NoCredentials == Request([n \in HeaderNames |-> None], [n \in QueryNames |-> None], None)

Config(locations, issuers, audiences, forward_claims, forward_token, reject) ==
  [lookup_locations |-> locations, issuers |-> issuers, audiences |-> audiences,
   forward_claims_to_upstream_header |-> forward_claims,
   forward_token_to_upstream_header |-> forward_token,
   reject_unauthenticated_requests |-> reject]

\* the lock and the request context before the hook has touched them
Unlocked == [readers |-> 0, writer |-> FALSE]
EmptyContext == [claims |-> None, token |-> None, short_circuit |-> None]

\* the plugin as create returns it for the providers ps when none of them prefetches
Constructed(ps) ==
  [jwks_providers |-> ps, can_prefetch |-> [p \in 1..Len(ps) |-> FALSE],
   at |-> Len(ps) + 1, prefetched |-> <<>>, created |-> TRUE]

HookIdle ==
  /\ providers = <<>>
  /\ fetch = <<>>
  /\ ctx_lock = Unlocked
  /\ ctx = EmptyContext
  /\ construction = Constructed(<<>>)
  /\ completed = <<>>
  /\ upstream_req = <<>>

----------------------------------------------------------------------------
(* SpecLookup: lookup applied to every request under every rule list *)

InitLookup ==
  /\ config \in {Config(l, None, None, None, None, None) : l \in SeqsUpTo(Locations, MaxRules)}
  /\ req \in Requests
  /\ jwt = NoJwt
  /\ jwks = <<>>
  /\ err_in = Pending
  /\ HookIdle
  /\ pc = "start"
  /\ result = Pending

CallLookup ==
  /\ pc = "start"
  /\ result' = lookup(config.lookup_locations, req)
  /\ pc' = "lookup_done"
  /\ UNCHANGED <<config, req, jwt, jwks, err_in, hookVars>>

NextLookup == CallLookup
SpecLookup == InitLookup /\ [][NextLookup]_vars

HeaderOf(loc, request) == request.headers[loc.name]

\* the rule's header, query parameter or cookie is not in the request
RuleAbsent(loc, request) ==
  CASE loc.kind = "Header" -> HeaderOf(loc, request) = None
    [] loc.kind = "QueryParam" -> request.query[loc.name] = None
    [] loc.kind = "Cookie" ->
         \/ request.cookie = None
         \/ /\ Unwrap(request.cookie).to_str_ok
            /\ \A i \in 1..Len(Unwrap(request.cookie).segments) :
                  Unwrap(request.cookie).segments[i].name # loc.name

\* the rule finds a value it can hand back
RuleYields(loc, request) ==
  CASE loc.kind = "Header" ->
         /\ HeaderOf(loc, request) # None
         /\ to_str_ok(Unwrap(HeaderOf(loc, request)))
         /\ loc.prefix # None =>
              starts_with(Unwrap(HeaderOf(loc, request)), Unwrap(loc.prefix))
    [] loc.kind = "QueryParam" -> request.query[loc.name] # None
    [] loc.kind = "Cookie" ->
         /\ request.cookie # None
         /\ Unwrap(request.cookie).to_str_ok
         /\ \E i \in 1..Len(Unwrap(request.cookie).segments) :
               /\ Unwrap(request.cookie).segments[i].parse_ok
               /\ Unwrap(request.cookie).segments[i].name = loc.name

RuleValue(loc, request) ==
  CASE loc.kind = "Header" ->
         LET v == Unwrap(HeaderOf(loc, request))
         IN IF loc.prefix = None THEN v
            ELSE trim(SubSeq(v, Len(Unwrap(loc.prefix)) + 1, Len(v)))
    [] loc.kind = "QueryParam" -> Unwrap(request.query[loc.name])
    [] loc.kind = "Cookie" ->
         LET segs == Unwrap(request.cookie).segments
         IN segs[MinOf({i \in 1..Len(segs) :
                          segs[i].parse_ok /\ segs[i].name = loc.name})].value

PrefixMismatch(loc, request) ==
  /\ loc.kind = "Header"
  /\ loc.prefix # None
  /\ HeaderOf(loc, request) # None
  /\ to_str_ok(Unwrap(HeaderOf(loc, request)))
  /\ ~starts_with(Unwrap(HeaderOf(loc, request)), Unwrap(loc.prefix))

Unstringifiable(loc, request) ==
  /\ loc.kind = "Header"
  /\ HeaderOf(loc, request) # None
  /\ ~to_str_ok(Unwrap(HeaderOf(loc, request)))

Rules == config.lookup_locations
Yielding == {i \in 1..Len(Rules) : RuleYields(Rules[i], req)}
Failing ==
  {i \in 1..Len(Rules) : PrefixMismatch(Rules[i], req) \/ Unstringifiable(Rules[i], req)}
AbsentUpTo(i) == \A j \in 1..i : RuleAbsent(Rules[j], req)

\* rules whose source is absent hand over to the rules after them
AbsenceFallsThrough ==
  \A i \in 1..Len(Rules) :
     AbsentUpTo(i) => result = lookup(SubSeq(Rules, i + 1, Len(Rules)), req)

\* C1 as stated, on requests whose header values all convert to strings:
\* lookup returns the value of the first rule, in configured order, that
\* yields one; a rule whose source is absent falls through to the next rule;
\* lookup fails with LookupFailed only when no rule yields a value.
C1_FirstYieldingRuleWins ==
  (pc = "lookup_done" /\ \A i \in 1..Len(Rules) : ~Unstringifiable(Rules[i], req)) =>
    /\ Yielding # {} => result = Ok(RuleValue(Rules[MinOf(Yielding)], req))
    /\ AbsenceFallsThrough
    /\ result = Err("LookupFailed") => Yielding = {}

\* C1 amended: lookup returns the outcome of the first rule, in configured
\* order, that does not fall through: the value of the first rule that yields
\* one, unless an earlier header rule finds its header present with a value
\* that lacks the configured prefix or cannot be converted to a string, in
\* which case lookup fails at that rule and no later rule is consulted; a rule
\* whose source is absent hands over to the next rule; lookup fails with
\* LookupFailed exactly when no rule yields a value and no header rule fails.
C1_FirstEndingRuleWins ==
  pc = "lookup_done" =>
    LET ending == Yielding \cup Failing
    IN /\ ending = {} <=> result = Err("LookupFailed")
       /\ ending # {} =>
            LET i == MinOf(ending)
            IN CASE RuleYields(Rules[i], req) -> result = Ok(RuleValue(Rules[i], req))
                 [] PrefixMismatch(Rules[i], req) -> result = Err("MismatchedPrefix")
                 [] Unstringifiable(Rules[i], req) -> result = Err("FailedToStringifyHeader")
       /\ AbsenceFallsThrough
       /\ result = Err("LookupFailed") => Yielding = {}

C1_Witness ==
  /\ pc = "lookup_done"
  /\ Len(Rules) = 2
  /\ RuleAbsent(Rules[1], req)
  /\ RuleYields(Rules[2], req)
  /\ result = Ok(RuleValue(Rules[2], req))

\* C2: a header rule with a prefix whose header is present with a value that
\* does not start with the prefix makes lookup fail with MismatchedPrefix at
\* that rule, without consulting later rules, and this failure differs from
\* the failure of a request that carries no credentials.
C2_PrefixMismatchEndsLookup ==
  pc = "lookup_done" =>
    \A i \in 1..Len(Rules) :
       (PrefixMismatch(Rules[i], req) /\ \A j \in 1..(i - 1) : j \notin Yielding \cup Failing)
         => /\ result = Err("MismatchedPrefix")
            /\ lookup(Rules, NoCredentials) = Err("LookupFailed")
            /\ result # lookup(Rules, NoCredentials)

C2_Witness ==
  /\ pc = "lookup_done"
  /\ Len(Rules) = 2
  /\ PrefixMismatch(Rules[1], req)
  /\ RuleYields(Rules[2], req)
  /\ result = Err("MismatchedPrefix")

----------------------------------------------------------------------------
(* SpecMatch: find_matching_jwks applied to every token header and every    *)
(* split of a key sequence into candidate key sets                          *)

\* the keys a as no key set, as one key set, or as two key sets cut after c keys
Candidates(a, c) ==
  {<<>>, <<JwkSet(a)>>, <<JwkSet(SubSeq(a, 1, c)), JwkSet(SubSeq(a, c + 1, Len(a)))>>}

KeyIds == {"k1", "k2"}
KeyAlgorithms == {"HS256", "RS256", "RSA_OAEP"}
GoodClaims == Claims(JString("i1"), JArray(<<JString("a1")>>), "valid")

MatchKeys == {Jwk(k, a, "h1") : k \in Options(KeyIds), a \in Options(KeyAlgorithms)}
MatchTokens == {Jwt(TRUE, a, k, "h1", GoodClaims) : a \in Algorithms, k \in Options(KeyIds)}

InitMatch ==
  /\ config = Config(<<>>, None, None, None, None, None)
  /\ req = NoCredentials
  /\ jwt \in MatchTokens
  /\ \E a \in SeqsUpTo(MatchKeys, MaxMatchKeys) : \E c \in 0..Len(a) : jwks \in Candidates(a, c)
  /\ err_in = Pending
  /\ HookIdle
  /\ pc = "start"
  /\ result = Pending

CallFindMatchingJwks ==
  /\ pc = "start"
  /\ result' = find_matching_jwks(decode_header(<<"T">>).val, jwks)
  /\ pc' = "match_done"
  /\ UNCHANGED <<config, req, jwt, jwks, err_in, hookVars>>

NextMatch == CallFindMatchingJwks
SpecMatch == InitMatch /\ [][NextMatch]_vars

SetsWithKid ==
  {i \in 1..Len(jwks) : \E k \in 1..Len(jwks[i].keys) : jwks[i].keys[k].key_id = jwt.kid}
SetsWithAlg ==
  {i \in 1..Len(jwks) :
     \E k \in 1..Len(jwks[i].keys) : jwks[i].keys[k].key_algorithm = Some(jwt.alg)}

\* C4: when the token header declares a key-id and some key of the candidate
\* key sets has that key-id, key matching returns the key set owning the
\* first such key in scan order, even when an earlier key set holds a key
\* whose declared algorithm equals the token's algorithm.
C4_KidBeforeAlgorithm ==
  pc = "match_done" =>
    ((jwt.kid # None /\ SetsWithKid # {}) => result = Ok(MinOf(SetsWithKid)))

C4_Witness ==
  /\ pc = "match_done"
  /\ jwt.kid # None
  /\ SetsWithKid = {2}
  /\ 1 \in SetsWithAlg
  /\ result = Ok(2)

----------------------------------------------------------------------------
(* SpecVerify: decode_and_validate_token applied to every key sequence      *)

Materials == {"h1", "h2", "bad"}
VerifyKeys == {Jwk(None, a, m) : a \in Options(KeyAlgorithms), m \in Materials}
VerifyTokens ==
  {Jwt(TRUE, a, None, m, c) :
     a \in Algorithms, m \in {"h1", "h2"},
     c \in {Claims(JString("i1"), JAbsent, "valid"), Claims(JString("i2"), JAbsent, "valid"),
            Claims(JString("i1"), JAbsent, "expired")}}

InitVerify ==
  /\ config = Config(<<>>, Some({"i1"}), None, None, None, None)
  /\ req = NoCredentials
  /\ jwt \in VerifyTokens
  /\ jwks \in {<<JwkSet(keys)>> : keys \in SeqsUpTo(VerifyKeys, MaxVerifyKeys)}
  /\ err_in = Pending
  /\ HookIdle
  /\ pc = "start"
  /\ result = Pending

CallDecodeAndValidateToken ==
  /\ pc = "start"
  /\ result' = decode_and_validate_token(<<"T">>, jwks[1].keys)
  /\ pc' = "verify_done"
  /\ UNCHANGED <<config, req, jwt, jwks, err_in, hookVars>>

NextVerify == CallDecodeAndValidateToken
SpecVerify == InitVerify /\ [][NextVerify]_vars

Verifying(keys) == {i \in 1..Len(keys) : try_decode_from_jwk(<<"T">>, keys[i]).ok}

\* C5: verifying a token against a key set of N keys returns the result of
\* the first key, in order, that verifies, whatever later keys would give;
\* if all N keys fail the result is AllProvidersFailedToDecode holding
\* exactly N per-key errors, the i-th being the failure of the i-th key.
C5_FirstVerifyingKeyOrAllErrors ==
  pc = "verify_done" =>
    LET keys == jwks[1].keys
    IN IF Verifying(keys) # {}
       THEN result = try_decode_from_jwk(<<"T">>, keys[MinOf(Verifying(keys))])
       ELSE /\ ~result.ok
            /\ result.err.kind = "AllProvidersFailedToDecode"
            /\ Len(result.err.errors) = Len(keys)
            /\ \A i \in 1..Len(keys) :
                  result.err.errors[i] = try_decode_from_jwk(<<"T">>, keys[i]).err

C5_Witness ==
  /\ pc = "verify_done"
  /\ Len(jwks[1].keys) = 3
  /\ ~result.ok
  /\ Len(result.err.errors) = 3
  /\ result.err.errors[1].kind = "InvalidDecodingKey"
  /\ result.err.errors[2].kind = "JwkMissingAlgorithm"
  /\ result.err.errors[3] = FailedToDecodeToken("InvalidSignature")

----------------------------------------------------------------------------
(* SpecClaims: try_decode_from_jwk applied to every shape of iss and aud    *)

IssuerValues ==
  {JAbsent, JString("i1"), JString("i2"), JNumber,
   JArray(<<JString("i1")>>), JArray(<<JString("i2")>>)}
AudienceEntries == {JString("a1"), JString("a2"), JNumber}
AudienceValues ==
  {JAbsent, JString("a1"), JString("a2"), JNumber}
    \cup {JArray(e) : e \in SeqsUpTo(AudienceEntries, MaxAudiences)}

ClaimsKeys == {Jwk(None, a, m) : a \in Options(KeyAlgorithms), m \in {"h1", "r1", "bad"}}
ClaimsTokens ==
  {Jwt(TRUE, a, None, m, Claims(i, d, e)) :
     a \in Algorithms, m \in {"h1", "r1"}, i \in IssuerValues, d \in AudienceValues,
     e \in {"valid", "expired", "missing"}}

InitClaims ==
  /\ config \in {Config(<<>>, i, a, None, None, None) :
                   i \in {None, Some({"i1"})}, a \in {None, Some({"a1"})}}
  /\ req = NoCredentials
  /\ jwt \in ClaimsTokens
  /\ jwks \in {<<JwkSet(<<k>>)>> : k \in ClaimsKeys}
  /\ err_in = Pending
  /\ HookIdle
  /\ pc = "start"
  /\ result = Pending

CallTryDecodeFromJwk ==
  /\ pc = "start"
  /\ result' = try_decode_from_jwk(<<"T">>, jwks[1].keys[1])
  /\ pc' = "try_done"
  /\ UNCHANGED <<config, req, jwt, jwks, err_in, hookVars>>

NextClaims == CallTryDecodeFromJwk
SpecClaims == InitClaims /\ [][NextClaims]_vars

\* aud is missing, is not an array, or holds an entry that is not a string of
\* the allow-list
AudienceOutsidePolicy ==
  \/ jwt.claims.aud.t # "array"
  \/ \E i \in 1..Len(jwt.claims.aud.a) :
        ~(jwt.claims.aud.a[i].t = "string"
            /\ jwt.claims.aud.a[i].s \in Unwrap(config.audiences))

\* iss is missing or is not a string of the allow-list
IssuerOutsidePolicy ==
  ~(jwt.claims.iss.t = "string" /\ jwt.claims.iss.s \in Unwrap(config.issuers))

\* C6: with an audience allow-list configured, verification of a token
\* against a key fails whenever the token's aud claim is missing, is not an
\* array, or is an array with an entry that is not a string of the allow-list.
C6_AudienceOutsidePolicyRejected ==
  (pc = "try_done" /\ config.audiences # None /\ AudienceOutsidePolicy) => ~result.ok

\* C7: with an issuer allow-list configured, verification of a token against
\* a key fails whenever the token has no iss claim or its iss is not a string
\* present in the allow-list.
C7_IssuerOutsidePolicyRejected ==
  (pc = "try_done" /\ config.issuers # None /\ IssuerOutsidePolicy) => ~result.ok

----------------------------------------------------------------------------
(* SpecAuth: authenticate applied to requests, tokens and candidate key sets *)

AuthLocations == <<HeaderLoc("authorization", Some(Prefix)), QueryParamLoc("jwt")>>
AuthRequests ==
  {NoCredentials,
   Request([n \in HeaderNames |-> Some(<<"B", " ", "T">>)], [n \in QueryNames |-> None], None)}
AuthPolicies == {<<None, None>>, <<Some({"i1"}), Some({"a1"})>>}
AuthKeys ==
  {Jwk(k, a, m) : k \in Options({"k1"}), a \in Options({"HS256", "RSA_OAEP"}),
                  m \in {"h1", "h2"}}
AuthTokens ==
  {NoJwt} \cup
  {Jwt(TRUE, a, k, "h1", c) :
     a \in Algorithms, k \in Options({"k1"}),
     c \in {GoodClaims, Claims(JAbsent, JAbsent, "valid"),
            Claims(JString("i1"), JArray(<<JString("a1")>>), "expired")}}

InitAuth ==
  /\ config \in {Config(AuthLocations, p[1], p[2], None, None, None) : p \in AuthPolicies}
  /\ req \in AuthRequests
  /\ jwt \in AuthTokens
  /\ \E a \in SeqsUpTo(AuthKeys, MaxAuthKeys) : \E c \in 0..Len(a) : jwks \in Candidates(a, c)
  /\ err_in = Pending
  /\ HookIdle
  /\ pc = "start"
  /\ result = Pending

CallAuthenticate ==
  /\ pc = "start"
  /\ result' = authenticate(jwks, req)
  /\ pc' = "auth_done"
  /\ UNCHANGED <<config, req, jwt, jwks, err_in, hookVars>>

NextAuth == CallAuthenticate
SpecAuth == InitAuth /\ [][NextAuth]_vars

TokenLocated == lookup(config.lookup_locations, req) = Ok(<<"T">>) /\ jwt.header_ok
SignedWith(key) ==
  key.material = jwt.signer /\ KeyFamily(key.material) = AlgorithmFamily(jwt.alg)

\* the token's issuer and audience satisfy the configured allow-lists
PolicySatisfied ==
  /\ config.issuers # None =>
       (jwt.claims.iss.t = "string" /\ jwt.claims.iss.s \in Unwrap(config.issuers))
  /\ config.audiences # None =>
       /\ jwt.claims.aud.t = "array"
       /\ jwt.claims.aud.a # <<>>
       /\ \A i \in 1..Len(jwt.claims.aud.a) :
             jwt.claims.aud.a[i].t = "string"
               /\ jwt.claims.aud.a[i].s \in Unwrap(config.audiences)
  /\ config.audiences = None => jwt.claims.aud.t = "absent"

\* the key sets holding the key that signed the token, with the token's
\* algorithm declared on it
SetsWithSigningKey ==
  {i \in 1..Len(jwks) :
     \E k \in 1..Len(jwks[i].keys) :
        SignedWith(jwks[i].keys[k]) /\ jwks[i].keys[k].key_algorithm = Some(jwt.alg)}

AllAlgorithmsSupported ==
  \A i \in 1..Len(jwks) : \A k \in 1..Len(jwks[i].keys) :
     jwks[i].keys[k].key_algorithm \in Options(Algorithms)

Authenticated ==
  result = Ok([token_data |-> [header |-> [alg |-> jwt.alg, kid |-> jwt.kid],
                               claims |-> jwt.claims],
               token |-> <<"T">>])

\* C3, for unexpired tokens that carry an aud claim only under an audience
\* allow-list, whose signing key declares the token's algorithm, among keys
\* that all declare supported algorithms: a token signed with a key present
\* in any of the key sets, whose issuer and audience satisfy the policy,
\* authenticates, and the claims returned equal the signed payload, for
\* every number and order of key sets and with or without key-ids.
C3_AnyKeySetRoundTrip ==
  (/\ pc = "auth_done"
   /\ TokenLocated
   /\ jwt.claims.exp = "valid"
   /\ PolicySatisfied
   /\ AllAlgorithmsSupported
   /\ SetsWithSigningKey # {}) => Authenticated

----------------------------------------------------------------------------
(* SpecStatus: StatusCode::from applied to every error                      *)

LookupErrors == {"LookupFailed", "MismatchedPrefix", "FailedToStringifyHeader"}
LibraryErrors ==
  {"InvalidToken", "InvalidSignature", "InvalidAlgorithm", "ExpiredSignature",
   "MissingRequiredClaim", "InvalidIssuer", "InvalidAudience"}
SingleErrors ==
  {LookupFailed(e) : e \in LookupErrors}
    \cup {InvalidJwtHeader(e) : e \in {"InvalidToken", "Base64"}}
    \cup {InvalidDecodingKey(e) : e \in {"InvalidKeyFormat", "Base64"}}
    \cup {FailedToLocateProvider, JwkMissingAlgorithm,
          JwkAlgorithmNotSupported("InvalidAlgorithmName")}
    \cup {FailedToDecodeToken(e) : e \in LibraryErrors}
    \cup {HTTPRequestParsingError(e) : e \in {"body", "json"}}
JwtErrors ==
  SingleErrors \cup {AllProvidersFailedToDecode(errors) : errors \in SeqsUpTo(SingleErrors, MaxErrors)}

InitStatus ==
  /\ config = Config(<<>>, None, None, None, None, None)
  /\ req = NoCredentials
  /\ jwt = NoJwt
  /\ jwks = <<>>
  /\ err_in \in JwtErrors
  /\ HookIdle
  /\ pc = "start"
  /\ result = Pending

CallStatusCodeFrom ==
  /\ pc = "start"
  /\ result' = StatusCode(err_in)
  /\ pc' = "status_done"
  /\ UNCHANGED <<config, req, jwt, jwks, err_in, hookVars>>

NextStatus == CallStatusCodeFrom
SpecStatus == InitStatus /\ [][NextStatus]_vars

\* C9: the status derived from a JwtError is fixed by its kind alone: 400
\* for LookupFailed, InvalidJwtHeader, JwkAlgorithmNotSupported and
\* HTTPRequestParsingError; 500 for JwkMissingAlgorithm,
\* FailedToLocateProvider and InvalidDecodingKey; 401 for
\* AllProvidersFailedToDecode and FailedToDecodeToken; every kind maps to
\* exactly one of the three, independent of the error's payload.
C9_StatusByKind ==
  pc = "status_done" =>
    /\ result = 400 <=> err_in.kind \in {"LookupFailed", "InvalidJwtHeader",
                                         "JwkAlgorithmNotSupported", "HTTPRequestParsingError"}
    /\ result = 500 <=> err_in.kind \in {"JwkMissingAlgorithm", "FailedToLocateProvider",
                                         "InvalidDecodingKey"}
    /\ result = 401 <=> err_in.kind \in {"AllProvidersFailedToDecode", "FailedToDecodeToken"}
    /\ result \in {400, 401, 500}
    /\ \A other \in JwtErrors : other.kind = err_in.kind => StatusCode(other) = result

C9_Witness ==
  /\ pc = "status_done"
  /\ err_in = AllProvidersFailedToDecode(<<JwkMissingAlgorithm, LookupFailed("MismatchedPrefix")>>)
  /\ result = 401

----------------------------------------------------------------------------
(* Spec: the pre-request hook, JwtAuthPlugin::on_downstream_http_request.   *)
(* The read guard taken by ctx.read() in the scrutinee of the match is a    *)
(* temporary of the match expression: it is dropped when the match ends,    *)
(* after the arm has run.                                                   *)

CLAIMS_CONTEXT_KEY == "jwt_auth:upstream:claims"
TOKEN_CONTEXT_KEY == "jwt_auth:upstream:token"

\* GraphQLResponse::new_error(message).into_with_status_code(status)
Response(status, message) == [status |-> status, message |-> message]

ProviderKeys ==
  {Jwk(None, Some("HS256"), "h1"), Jwk(None, Some("HS256"), "h2"),
   Jwk(Some("k1"), Some("HS256"), "h1"), Jwk(Some("k1"), Some("HS256"), "h2"),
   Jwk(Some("k1"), None, "h1"), Jwk(Some("k1"), Some("HS256"), "bad")}

\* two configured providers serving at most MaxProviderKeys keys in all
ProviderSets ==
  UNION {{<<JwkSet(SubSeq(a, 1, c)), JwkSet(SubSeq(a, c + 1, Len(a)))>> : c \in 0..Len(a)} :
           a \in SeqsUpTo(ProviderKeys, MaxProviderKeys)}

TokenRequest ==
  Request([n \in HeaderNames |-> Some(<<"B", " ", "T">>)], [n \in QueryNames |-> None], None)
HookScenarios ==
  {<<NoCredentials, NoJwt>>, <<TokenRequest, NoJwt>>}
    \cup {<<TokenRequest, Jwt(TRUE, "HS256", k, "h1", Claims(JString("i1"), JAbsent, "valid"))>> :
            k \in Options({"k1"})}

Init ==
  /\ config \in {Config(AuthLocations, None, None, fc, ft, r) :
                   fc \in Options({"x-claims"}), ft \in Options({"x-token"}), r \in Options(BOOLEAN)}
  /\ \E sc \in HookScenarios : req = sc[1] /\ jwt = sc[2]
  /\ providers \in ProviderSets
  /\ fetch = [p \in 1..Len(providers) |-> "pending"]
  /\ jwks = <<>>
  /\ err_in = Pending
  /\ ctx_lock = Unlocked
  /\ ctx = EmptyContext
  /\ construction = Constructed(providers)
  /\ completed = <<>>
  /\ upstream_req = <<>>
  /\ pc = "start"
  /\ result = Pending

\* one future of join_all completes: provider.retrieve_jwk_set() gives Ok or Err
RetrieveJwkSet(p) ==
  /\ pc = "start"
  /\ fetch[p] = "pending"
  /\ \E outcome \in {"ok", "err"} : fetch' = [fetch EXCEPT ![p] = outcome]
  /\ completed' = Append(completed, p)
  /\ UNCHANGED <<config, req, jwt, jwks, err_in, providers, ctx_lock, ctx, construction,
                 upstream_req, pc, result>>

\* a faulty collection: the key sets retrieved, in the order of completion
RECURSIVE ValidJwksByCompletion(_)
ValidJwksByCompletion(p) ==
  IF p > Len(completed) THEN <<>>
  ELSE (IF fetch[completed[p]] = "ok" THEN <<providers[completed[p]]>> ELSE <<>>)
         \o ValidJwksByCompletion(p + 1)

\* jwks.iter().filter_map(..): the key sets retrieved, in provider order
RECURSIVE ValidJwksFrom(_)
ValidJwksFrom(p) ==
  IF p > Len(providers) THEN <<>>
  ELSE (IF fetch[p] = "ok" THEN <<providers[p]>> ELSE <<>>) \o ValidJwksFrom(p + 1)

valid_jwks == ValidJwksFrom(1)

\* a faulty join: the hook resumes only once every retrieval has succeeded
JoinAllAwaitsSuccess ==
  /\ pc = "start"
  /\ \A p \in 1..Len(providers) : fetch[p] = "ok"
  /\ jwks' = valid_jwks
  /\ pc' = "joined"
  /\ UNCHANGED <<config, req, jwt, err_in, providers, fetch, ctx_lock, ctx, result,
                 construction, completed, upstream_req>>

\* join_all(..).await returns once every future has completed
JoinAll ==
  /\ pc = "start"
  /\ \A p \in 1..Len(providers) : fetch[p] # "pending"
  /\ jwks' = valid_jwks
  /\ pc' = "joined"
  /\ UNCHANGED <<config, req, jwt, err_in, providers, fetch, ctx_lock, ctx, result,
                 construction, completed, upstream_req>>

\* match self.authenticate(&valid_jwks, &ctx.read().unwrap().downstream_http_request)
Authenticate ==
  /\ pc = "joined"
  /\ ~ctx_lock.writer
  /\ ctx_lock' = [ctx_lock EXCEPT !.readers = @ + 1]
  /\ result' = authenticate(jwks, req)
  /\ pc' = "matched"
  /\ UNCHANGED <<config, req, jwt, jwks, err_in, providers, fetch, ctx,
                 construction, completed, upstream_req>>

\* ctx.write().unwrap() followed by a store: the write lock is granted only
\* when no guard is held; asked for by the holder of a read guard, it is never
\* granted, and RwLock::write then blocks for ever or panics
CtxWrite(stored, next) ==
  IF ctx_lock.readers = 0 /\ ~ctx_lock.writer
  THEN /\ ctx' = stored
       /\ pc' = next
       /\ UNCHANGED ctx_lock
  ELSE \/ /\ pc' = "blocked"
          /\ UNCHANGED <<ctx, ctx_lock>>
       \/ /\ pc' = "panicked"
          /\ ctx_lock' = [ctx_lock EXCEPT !.readers = @ - 1]
          /\ UNCHANGED ctx

\* Ok arm: if self.config.forward_claims_to_upstream_header.is_some() { .. ctx_insert(CLAIMS_CONTEXT_KEY, ..) }
InsertClaims ==
  /\ pc = "matched"
  /\ result.ok
  /\ IF IsSome(config.forward_claims_to_upstream_header)
     THEN CtxWrite([ctx EXCEPT !.claims = Some(result.val.token_data.claims)], "claims_done")
     ELSE pc' = "claims_done" /\ UNCHANGED <<ctx, ctx_lock>>
  /\ UNCHANGED <<config, req, jwt, jwks, err_in, providers, fetch, result,
                 construction, completed, upstream_req>>

\* Ok arm: if self.config.forward_token_to_upstream_header.is_some() { .. ctx_insert(TOKEN_CONTEXT_KEY, token) }
InsertToken ==
  /\ pc = "claims_done"
  /\ IF IsSome(config.forward_token_to_upstream_header)
     THEN CtxWrite([ctx EXCEPT !.token = Some(result.val.token)], "arm_done")
     ELSE pc' = "arm_done" /\ UNCHANGED <<ctx, ctx_lock>>
  /\ UNCHANGED <<config, req, jwt, jwks, err_in, providers, fetch, result,
                 construction, completed, upstream_req>>

\* Err arm: if reject_unauthenticated_requests.is_some_and(|v| v) { .. short_circuit(..) }
ShortCircuit ==
  /\ pc = "matched"
  /\ ~result.ok
  /\ IF TRUE \in config.reject_unauthenticated_requests
     THEN CtxWrite([ctx EXCEPT !.short_circuit =
                       Some(Response(StatusCode(result.err), "unauthenticated request"))],
                   "arm_done")
     ELSE pc' = "arm_done" /\ UNCHANGED <<ctx, ctx_lock>>
  /\ UNCHANGED <<config, req, jwt, jwks, err_in, providers, fetch, result,
                 construction, completed, upstream_req>>

\* the match ends: its temporaries, the read guard among them, are dropped
EndOfMatch ==
  /\ pc = "arm_done"
  /\ ctx_lock' = [ctx_lock EXCEPT !.readers = @ - 1]
  /\ pc' = "done"
  /\ UNCHANGED <<config, req, jwt, jwks, err_in, providers, fetch, ctx, result,
                 construction, completed, upstream_req>>

----------------------------------------------------------------------------
(* The pre-upstream-forward hook, JwtAuthPlugin::on_upstream_http_request.  *)
(* The engine calls it for a request that was not short-circuited.  The     *)
(* read guard taken in the scrutinee of each inner `if let` is held while   *)
(* the body of that `if let` runs.                                          *)

\* serde_json::Value::to_string, as the atoms of the strings the text holds
JsonText(v) ==
  CASE v.t = "string" -> <<v.s>>
    [] v.t = "array" -> [i \in 1..Len(v.a) |-> v.a[i].s]
    [] OTHER -> <<>>
ClaimsText(claims) == JsonText(claims.iss) \o JsonText(claims.aud)

\* str::parse::<HeaderValue>: refuses control characters, here the atom "x7f"
HeaderValueFromStr(text) ==
  IF \E i \in 1..Len(text) : text[i] = "x7f" THEN Err("InvalidHeaderValue") ELSE Ok(text)

\* str::parse::<HeaderName>: refuses characters that are no token characters
\* and gives the name in lower case
HeaderNameFromStr(name) ==
  CASE name \in {"x-claims", "x-token"} -> Ok(name)
    [] name = "X-Token" -> Ok("x-token")
    [] OTHER -> Err("InvalidHeaderName")

ReleaseRead == ctx_lock' = [ctx_lock EXCEPT !.readers = @ - 1]

\* if let Some(header_name) = &self.config.forward_claims_to_upstream_header {
\*   if let Some(claims) = ctx.read().unwrap().ctx_get(CLAIMS_CONTEXT_KEY) {
ReadClaims ==
  /\ pc = "done"
  /\ ctx.short_circuit = None
  /\ IF IsSome(config.forward_claims_to_upstream_header)
     THEN /\ ~ctx_lock.writer
          /\ ctx_lock' = [ctx_lock EXCEPT !.readers = @ + 1]
          /\ pc' = "claims_read"
     ELSE pc' = "claims_forwarded" /\ UNCHANGED ctx_lock
  /\ UNCHANGED <<config, req, jwt, jwks, err_in, providers, fetch, ctx, result,
                 construction, completed, upstream_req>>

\* a faulty forwarding: a header is appended although no claims are stored
ForwardClaimsUnconditionally ==
  /\ pc = "claims_read"
  /\ upstream_req' =
       Append(upstream_req,
              <<Unwrap(config.forward_claims_to_upstream_header),
                IF IsSome(ctx.claims) THEN ClaimsText(Unwrap(ctx.claims)) ELSE <<>>>>)
  /\ ReleaseRead
  /\ pc' = "claims_forwarded"
  /\ UNCHANGED <<config, req, jwt, jwks, err_in, providers, fetch, ctx, result,
                 construction, completed>>

\* the body of the claims `if let`: match claims.to_string().parse::<HeaderValue>()
ForwardClaims ==
  /\ pc = "claims_read"
  /\ IF ~IsSome(ctx.claims)
     THEN ReleaseRead /\ pc' = "claims_forwarded" /\ UNCHANGED <<ctx, upstream_req>>
     ELSE LET header_value == HeaderValueFromStr(ClaimsText(Unwrap(ctx.claims)))
              header_name == HeaderNameFromStr(Unwrap(config.forward_claims_to_upstream_header))
          IN IF header_value.ok
             THEN IF header_name.ok
                  THEN /\ upstream_req' = Append(upstream_req, <<header_name.val, header_value.val>>)
                       /\ ReleaseRead
                       /\ pc' = "claims_forwarded"
                       /\ UNCHANGED ctx
                  ELSE /\ CtxWrite([ctx EXCEPT !.short_circuit =
                                      Some(Response(BAD_REQUEST,
                                                    "Failed to parse header name for claims"))],
                                   "returned")
                       /\ UNCHANGED upstream_req
             ELSE /\ CtxWrite([ctx EXCEPT !.short_circuit =
                                 Some(Response(BAD_REQUEST,
                                               "Failed to parse claims as header value"))],
                              "returned")
                  /\ UNCHANGED upstream_req
  /\ UNCHANGED <<config, req, jwt, jwks, err_in, providers, fetch, result,
                 construction, completed>>

\* if let Some(header_name) = &self.config.forward_token_to_upstream_header {
\*   if let Some(token) = ctx.read().unwrap().ctx_get(TOKEN_CONTEXT_KEY) {
ReadToken ==
  /\ pc = "claims_forwarded"
  /\ IF IsSome(config.forward_token_to_upstream_header)
     THEN /\ ~ctx_lock.writer
          /\ ctx_lock' = [ctx_lock EXCEPT !.readers = @ + 1]
          /\ pc' = "token_read"
     ELSE pc' = "forwarded" /\ UNCHANGED ctx_lock
  /\ UNCHANGED <<config, req, jwt, jwks, err_in, providers, fetch, ctx, result,
                 construction, completed, upstream_req>>

\* the body of the token `if let`: the stored token is a string value, so
\* as_str() gives it; match token.as_str().and_then(|t| t.parse::<HeaderValue>().ok())
ForwardToken ==
  /\ pc = "token_read"
  /\ IF ~IsSome(ctx.token)
     THEN ReleaseRead /\ pc' = "forwarded" /\ UNCHANGED <<ctx, upstream_req>>
     ELSE LET header_value == HeaderValueFromStr(Unwrap(ctx.token))
              header_name == HeaderNameFromStr(Unwrap(config.forward_token_to_upstream_header))
          IN IF header_value.ok
             THEN IF header_name.ok
                  THEN /\ upstream_req' = Append(upstream_req, <<header_name.val, header_value.val>>)
                       /\ ReleaseRead
                       /\ pc' = "forwarded"
                       /\ UNCHANGED ctx
                  ELSE /\ CtxWrite([ctx EXCEPT !.short_circuit =
                                      Some(Response(BAD_REQUEST,
                                                    "Failed to parse header name for token"))],
                                   "returned")
                       /\ UNCHANGED upstream_req
             ELSE /\ CtxWrite([ctx EXCEPT !.short_circuit =
                                 Some(Response(BAD_REQUEST,
                                               "Failed to convert token to header value"))],
                              "returned")
                  /\ UNCHANGED upstream_req
  /\ UNCHANGED <<config, req, jwt, jwks, err_in, providers, fetch, result,
                 construction, completed>>

Next ==
  \/ \E p \in 1..Len(providers) : RetrieveJwkSet(p)
  \/ JoinAll
  \/ Authenticate
  \/ InsertClaims
  \/ InsertToken
  \/ ShortCircuit
  \/ EndOfMatch
  \/ ReadClaims
  \/ ForwardClaims
  \/ ReadToken
  \/ ForwardToken

Spec == Init /\ [][Next]_vars

\* the hook has returned, or will never return
HookEnded == pc \in {"done", "blocked", "panicked"}
AuthenticationFailed == ~result.ok
Rejecting == TRUE \in config.reject_unauthenticated_requests

\* C8: the pre-request hook short-circuits the request if and only if
\* authentication failed and reject_unauthenticated_requests is true, with
\* the status mapped from the error of authenticate and the fixed message;
\* a token whose signature no key of the matched key set verifies is
\* rejected with 401; with the flag false or unset a failed authentication
\* never short-circuits.
C8_ShortCircuitIffRejected ==
  HookEnded =>
    /\ ctx.short_circuit # None <=> (AuthenticationFailed /\ Rejecting)
    /\ (AuthenticationFailed /\ Rejecting) =>
         ctx.short_circuit = Some(Response(StatusCode(result.err), "unauthenticated request"))
    /\ (/\ AuthenticationFailed /\ Rejecting
        /\ result.err.kind = "AllProvidersFailedToDecode"
        /\ \A i \in 1..Len(result.err.errors) :
              result.err.errors[i] = FailedToDecodeToken("InvalidSignature"))
         => ctx.short_circuit = Some(Response(401, "unauthenticated request"))

\* authentication failed only because keys of the matched key set lack an
\* algorithm or hold material that gives no decoding key
FailedByKeyDefect ==
  /\ ~result.ok
  /\ result.err.kind = "AllProvidersFailedToDecode"
  /\ \A i \in 1..Len(result.err.errors) :
        result.err.errors[i].kind \in {"JwkMissingAlgorithm", "InvalidDecodingKey"}

\* C10: with reject_unauthenticated_requests true, an authentication that
\* fails because a key of the matched key set lacks an algorithm, or because
\* its material gives no decoding key, short-circuits the request with
\* status 500.
C10_KeyDefectRejectedWith500 ==
  (HookEnded /\ Rejecting /\ FailedByKeyDefect) =>
    ctx.short_circuit = Some(Response(500, "unauthenticated request"))

----------------------------------------------------------------------------
(* Claims about the two hooks of one request                                *)

\* the arm of the match in the pre-request hook has run
ArmEntered == pc \notin {"start", "joined", "matched"}

\* C11: in a request whose authentication failed in the pre-request hook and
\* that was allowed to proceed, the pre-request hook leaves the request
\* context without stored claims, stored token or short-circuit, and the
\* pre-upstream-forward hook appends no header to the upstream request and
\* does not short-circuit, whatever upstream header names are configured.
C11_FailOpenForwardsNothing ==
  (ArmEntered /\ ~result.ok /\ ~Rejecting) =>
    /\ pc \in {"arm_done", "done", "claims_read", "claims_forwarded", "token_read", "forwarded"}
    /\ ctx = EmptyContext
    /\ upstream_req = <<>>

C11_Witness ==
  /\ pc = "forwarded"
  /\ ~result.ok
  /\ config.reject_unauthenticated_requests = Some(FALSE)
  /\ config.forward_claims_to_upstream_header # None
  /\ config.forward_token_to_upstream_header # None
  /\ req = NoCredentials
  /\ ctx = EmptyContext
  /\ upstream_req = <<>>

\* the providers whose retrieval for this request succeeded
Healthy == {p \in 1..Len(providers) : fetch[p] = "ok"}

\* the key matches the token's header, by key-id or by declared algorithm,
\* and verifies the token
MatchesAndVerifies(key) ==
  /\ \/ jwt.kid # None /\ key.key_id = jwt.kid
     \/ key.key_algorithm = Some(jwt.alg)
  /\ try_decode_from_jwk(<<"T">>, key).ok

\* C12: the pre-request hook authenticates against exactly the key sets of
\* the providers whose retrieval succeeded, and whenever at least one healthy
\* provider holds a key that matches and verifies the token, authentication
\* succeeds whatever subset of the other providers fails.
C12_HealthyProviderSuffices ==
  ArmEntered =>
    /\ jwks = valid_jwks
    /\ result = authenticate(valid_jwks, req)
    /\ (/\ TokenLocated
        /\ \E p \in Healthy : \E k \in 1..Len(providers[p].keys) :
              MatchesAndVerifies(providers[p].keys[k])) => result.ok

----------------------------------------------------------------------------
(* SpecTimely: the hooks with the bound on a provider's fetch               *)

\* the timeout that bounds provider.retrieve_jwk_set(): a fetch that has not
\* completed is ended as failed
RetrieveTimesOut(p) ==
  /\ pc = "start"
  /\ fetch[p] = "pending"
  /\ fetch' = [fetch EXCEPT ![p] = "timeout"]
  /\ completed' = Append(completed, p)
  /\ UNCHANGED <<config, req, jwt, jwks, err_in, providers, ctx_lock, ctx, construction,
                 upstream_req, pc, result>>

\* two providers: the signing key behind a wrong key, alone, or nowhere
TimelyProviders ==
  {<<JwkSet(<<Jwk(None, Some("HS256"), "h2")>>), JwkSet(<<Jwk(None, Some("HS256"), "h1")>>)>>,
   <<JwkSet(<<>>), JwkSet(<<Jwk(Some("k1"), Some("HS256"), "h1")>>)>>,
   <<JwkSet(<<Jwk(Some("k1"), None, "h1")>>), JwkSet(<<>>)>>}

InitTimely ==
  /\ config \in {Config(AuthLocations, None, None, fc, Some("x-token"), Some(FALSE)) :
                   fc \in Options({"x-claims"})}
  /\ \E sc \in HookScenarios : req = sc[1] /\ jwt = sc[2]
  /\ providers \in TimelyProviders
  /\ fetch = [p \in 1..Len(providers) |-> "pending"]
  /\ jwks = <<>>
  /\ err_in = Pending
  /\ ctx_lock = Unlocked
  /\ ctx = EmptyContext
  /\ construction = Constructed(providers)
  /\ completed = <<>>
  /\ upstream_req = <<>>
  /\ pc = "start"
  /\ result = Pending

NextTimely ==
  \/ \E p \in 1..Len(providers) : RetrieveTimesOut(p)
  \/ Next

\* a provider may never answer; its timeout fires, and the hook's future is
\* polled again whenever it can make a step
SpecTimely ==
  /\ InitTimely
  /\ [][NextTimely]_vars
  /\ \A p \in 1..2 : WF_vars(RetrieveTimesOut(p))
  /\ WF_vars(JoinAll)
  /\ WF_vars(Authenticate)

C14_SuccessStoresWhatIsConfigured ==
  (HookEnded /\ result.ok) =>
    /\ ctx.claims # None <=> config.forward_claims_to_upstream_header # None
    /\ ctx.claims # None => ctx.claims = Some(jwt.claims)
    /\ ctx.token # None <=> config.forward_token_to_upstream_header # None
    /\ ctx.token # None => ctx.token = Some(lookup(config.lookup_locations, req).val)
    /\ ctx.short_circuit = None

----------------------------------------------------------------------------
(* SpecUpstream: the pre-upstream-forward hook applied to every request     *)
(* context and every pair of configured header names                        *)

StoredClaims ==
  {Claims(JString("i1"), JAbsent, "valid"),
   Claims(JString("i1"), JArray(<<JString("a1"), JString("a2")>>), "valid"),
   Claims(JString("x7f"), JAbsent, "valid")}
StoredTokens == {<<"T">>, <<"x7f">>}

InitUpstream ==
  /\ config \in {Config(AuthLocations, None, None, fc, ft, None) :
                   fc \in Options({"x-claims", "bad name"}),
                   ft \in Options({"x-token", "X-Token", "bad name"})}
  /\ req = TokenRequest
  /\ jwt = NoJwt
  /\ jwks = <<>>
  /\ err_in = Pending
  /\ providers = <<>>
  /\ fetch = <<>>
  /\ ctx_lock = Unlocked
  /\ ctx \in {[claims |-> c, token |-> t, short_circuit |-> None] :
                c \in Options(StoredClaims), t \in Options(StoredTokens)}
  /\ construction = Constructed(<<>>)
  /\ completed = <<>>
  /\ upstream_req = <<>>
  /\ pc = "done"
  /\ result = Pending

NextUpstream ==
  \/ ReadClaims
  \/ ForwardClaims
  \/ ReadToken
  \/ ForwardToken

SpecUpstream == InitUpstream /\ [][NextUpstream]_vars

\* the pre-upstream-forward hook has returned, or will never return
UpstreamEnded == pc \in {"forwarded", "returned", "blocked", "panicked"}

ClaimsDue == config.forward_claims_to_upstream_header # None /\ ctx.claims # None
TokenDue == config.forward_token_to_upstream_header # None /\ ctx.token # None

ClaimsForwarded ==
  LET header_name == HeaderNameFromStr(Unwrap(config.forward_claims_to_upstream_header))
  IN /\ header_name.ok
     /\ Cardinality({i \in 1..Len(upstream_req) :
                       upstream_req[i] = <<header_name.val, ClaimsText(Unwrap(ctx.claims))>>}) = 1
TokenForwarded ==
  LET header_name == HeaderNameFromStr(Unwrap(config.forward_token_to_upstream_header))
  IN /\ header_name.ok
     /\ Cardinality({i \in 1..Len(upstream_req) :
                       upstream_req[i] = <<header_name.val, Unwrap(ctx.token)>>}) = 1

ClaimsRejected ==
  ctx.short_circuit \in {Some(Response(400, "Failed to parse header name for claims")),
                         Some(Response(400, "Failed to parse claims as header value"))}
TokenRejected ==
  ctx.short_circuit \in {Some(Response(400, "Failed to parse header name for token")),
                         Some(Response(400, "Failed to convert token to header value"))}

\* C15: in the pre-upstream-forward hook, for each of the two forwardings
\* whose header name is configured and whose value is stored in the request
\* context, either the header is appended once to the upstream request, or
\* the request is short-circuited with status 400 because the value cannot
\* be made a header value or the name is no header name; the token is
\* handled as the claims are.
C15_ForwardedOrRejected ==
  UpstreamEnded =>
    /\ ClaimsDue => (ClaimsForwarded # ClaimsRejected)
    /\ (TokenDue /\ ~ClaimsRejected /\ (ClaimsDue => ClaimsForwarded)) =>
         (TokenForwarded # TokenRejected)
    /\ Len(upstream_req) = (IF ClaimsDue /\ ClaimsForwarded THEN 1 ELSE 0)
                             + (IF TokenDue /\ TokenForwarded THEN 1 ELSE 0)

----------------------------------------------------------------------------
(* SpecCreate: JwtAuthPlugin::create followed by the retrievals of the      *)
(* first request's hook                                                     *)

InitCreate ==
  /\ config = Config(AuthLocations, None, None, None, None, None)
  /\ \E sc \in HookScenarios : req = sc[1] /\ jwt = sc[2]
  /\ providers \in TimelyProviders
  /\ fetch = [p \in 1..Len(providers) |-> "pending"]
  /\ jwks = <<>>
  /\ err_in = Pending
  /\ ctx_lock = Unlocked
  /\ ctx = EmptyContext
  /\ \E can \in [1..Len(providers) -> BOOLEAN] :
       construction = [jwks_providers |-> providers, can_prefetch |-> can,
                       at |-> 1, prefetched |-> <<>>, created |-> FALSE]
  /\ completed = <<>>
  /\ upstream_req = <<>>
  /\ pc = "create"
  /\ result = Pending

\* a faulty prefetch: a provider whose prefetch failed is settled as failed and
\* is not retrieved again by the hook
PrefetchSettlesFailure ==
  /\ pc = "create"
  /\ construction.at <= Len(providers)
  /\ IF construction.can_prefetch[construction.at]
     THEN \E outcome \in {"ok", "err"} :
            /\ construction' =
                 [construction EXCEPT
                    !.prefetched = Append(@, [provider |-> construction.at, outcome |-> outcome]),
                    !.at = @ + 1]
            /\ fetch' = IF outcome = "err" THEN [fetch EXCEPT ![construction.at] = "err"]
                        ELSE fetch
     ELSE construction' = [construction EXCEPT !.at = @ + 1] /\ UNCHANGED fetch
  /\ UNCHANGED <<config, req, jwt, jwks, err_in, providers, ctx_lock, ctx, completed,
                 upstream_req, pc, result>>

\* one step of `for provider in providers.iter().filter(|p| p.can_prefetch())`:
\* a provider that cannot prefetch is skipped, the others are retrieved and a
\* failure is only logged
Prefetch ==
  /\ pc = "create"
  /\ construction.at <= Len(providers)
  /\ IF construction.can_prefetch[construction.at]
     THEN \E outcome \in {"ok", "err"} :
            construction' =
              [construction EXCEPT
                 !.prefetched = Append(@, [provider |-> construction.at, outcome |-> outcome]),
                 !.at = @ + 1]
     ELSE construction' = [construction EXCEPT !.at = @ + 1]
  /\ UNCHANGED <<config, req, jwt, jwks, err_in, providers, fetch, ctx_lock, ctx, completed,
                 upstream_req, pc, result>>

\* Ok(Box::new(Self { config, providers }))
FinishCreate ==
  /\ pc = "create"
  /\ construction.at > Len(providers)
  /\ construction' = [construction EXCEPT !.created = TRUE]
  /\ pc' = "start"
  /\ UNCHANGED <<config, req, jwt, jwks, err_in, providers, fetch, ctx_lock, ctx, completed,
                 upstream_req, result>>

NextCreate ==
  \/ Prefetch
  \/ FinishCreate
  \/ \E p \in 1..Len(providers) : RetrieveJwkSet(p)
  \/ JoinAll

SpecCreate == InitCreate /\ [][NextCreate]_vars

\* the providers that can prefetch, in configuration order
RECURSIVE PrefetchableFrom(_)
PrefetchableFrom(p) ==
  IF p > Len(providers) THEN <<>>
  ELSE (IF construction.can_prefetch[p] THEN <<p>> ELSE <<>>) \o PrefetchableFrom(p + 1)

PrefetchedProviders ==
  [i \in 1..Len(construction.prefetched) |-> construction.prefetched[i].provider]

\* C16: create always succeeds; exactly the providers that can prefetch are
\* retrieved, once each, during construction; a failed prefetch neither fails
\* construction nor removes the provider, which the first request's hook
\* retrieves again.
C16_PrefetchNeverFailsCreate ==
  /\ (pc = "create" /\ construction.at > Len(providers)) =>
       PrefetchedProviders = PrefetchableFrom(1)
  /\ pc # "create" =>
       /\ construction.created
       /\ PrefetchedProviders = PrefetchableFrom(1)
       /\ providers = construction.jwks_providers
       /\ \A p \in 1..Len(providers) :
            fetch[p] = "pending" <=> \A i \in 1..Len(completed) : completed[i] # p
  /\ pc = "joined" =>
       \A p \in 1..Len(providers) :
         Cardinality({i \in 1..Len(completed) : completed[i] = p}) = 1

C16_Witness ==
  /\ pc = "joined"
  /\ construction.created
  /\ construction.can_prefetch = <<TRUE, FALSE>>
  /\ construction.prefetched = <<[provider |-> 1, outcome |-> "err"]>>
  /\ completed = <<2, 1>>
  /\ fetch = <<"ok", "ok">>

----------------------------------------------------------------------------
\* the next step of the pre-request hook asks for ctx.write()
WriteRequested ==
  \/ pc = "matched" /\ result.ok /\ IsSome(config.forward_claims_to_upstream_header)
  \/ pc = "matched" /\ ~result.ok /\ Rejecting
  \/ pc = "claims_done" /\ IsSome(config.forward_token_to_upstream_header)

\* C17: whenever a hook asks for the write lock of the request context it
\* holds no read lock of it, so neither hook blocks for ever or panics on the
\* lock and every invocation runs to its end.
C17_NoWriteUnderReadGuard ==
  /\ WriteRequested => ctx_lock.readers = 0
  /\ pc \notin {"blocked", "panicked"}

----------------------------------------------------------------------------
\* the key-id scan finds a key
KidFound == jwt.kid # None /\ SetsWithKid # {}

\* some candidate key declares an algorithm that is no supported algorithm
UnparseableAlgPresent ==
  \E i \in 1..Len(jwks) : \E k \in 1..Len(jwks[i].keys) :
    /\ IsSome(jwks[i].keys[k].key_algorithm)
    /\ ~AlgorithmFromStr(Unwrap(jwks[i].keys[k].key_algorithm)).ok

\* C18: in the algorithm-fallback scan a key whose declared algorithm does
\* not parse into a supported algorithm does not abort the matching pass: a
\* key of the same or a later key set whose declared algorithm equals the
\* token's algorithm is still found and its key set is returned.
C18_UnparseableAlgIsSkipped ==
  (pc = "match_done" /\ ~KidFound /\ UnparseableAlgPresent /\ SetsWithAlg # {}) =>
    result = Ok(MinOf(SetsWithAlg))

\* C20: when the token declares no key-id, or one that no candidate key
\* carries, matching returns the key set owning the first key, in candidate
\* and then key order, whose declared algorithm equals the token's; when
\* neither scan finds a key, the empty candidate list included, matching
\* fails with FailedToLocateProvider.
C20_AlgorithmFallback ==
  (pc = "match_done" /\ ~KidFound) =>
    result = IF SetsWithAlg # {} THEN Ok(MinOf(SetsWithAlg)) ELSE Err(FailedToLocateProvider)

----------------------------------------------------------------------------
\* the providers whose retrieval succeeded, in provider configuration order
HealthyInOrder ==
  [i \in 1..Cardinality(Healthy) |->
     CHOOSE p \in Healthy : Cardinality({q \in Healthy : q < p}) = i - 1]
CandidatesInOrder == [i \in 1..Cardinality(Healthy) |-> providers[HealthyInOrder[i]]]

TimesCompleted(p) == Cardinality({i \in 1..Len(completed) : completed[i] = p})

\* C19: in the pre-request hook authentication starts only after the
\* retrieval of every configured provider has completed, with success or
\* failure, each provider being retrieved exactly once per request; the
\* retrievals complete in any order, and the candidate key sets handed to
\* matching are in provider configuration order, so that the outcome of the
\* hook does not depend on the order of completion.
C19_JoinThenAuthenticateInOrder ==
  /\ \A p \in 1..Len(providers) :
       TimesCompleted(p) = IF fetch[p] = "pending" THEN 0 ELSE 1
  /\ pc = "start" => result = Pending
  /\ pc # "start" =>
       /\ \A p \in 1..Len(providers) : fetch[p] # "pending" /\ TimesCompleted(p) = 1
       /\ jwks = CandidatesInOrder
  /\ result # Pending => result = authenticate(CandidatesInOrder, req)

C19_Witness ==
  /\ pc = "matched"
  /\ completed = <<2, 1>>
  /\ fetch = <<"ok", "ok">>
  /\ providers[1] # providers[2]
  /\ jwks = <<providers[1], providers[2]>>
  /\ result.ok

----------------------------------------------------------------------------
\* stage 1 fails: no lookup rule yields a token
LookupFails == ~lookup(config.lookup_locations, req).ok

\* stage 2 fails: a token is located and its header does not parse
HeaderMalformed ==
  /\ lookup(config.lookup_locations, req).ok
  /\ ~Parse(lookup(config.lookup_locations, req).val).header_ok

\* stage 3 finds nothing: no candidate key carries the token's key-id or
\* declares the token's algorithm
MatchesNoKeySet ==
  /\ TokenLocated
  /\ \A i \in 1..Len(jwks) : \A k \in 1..Len(jwks[i].keys) :
       /\ ~(jwt.kid # None /\ jwks[i].keys[k].key_id = jwt.kid)
       /\ jwks[i].keys[k].key_algorithm # Some(jwt.alg)

\* C21: authenticate runs locate, parse header, match key set, verify in
\* that order and returns the error of the first failing stage without
\* running a later one: a lookup failure gives LookupFailed and a malformed
\* token header gives InvalidJwtHeader whatever the key sets are, and a
\* token that matches no key set gives FailedToLocateProvider with no
\* verification attempted.
C21_FirstFailingStageDecides ==
  pc = "auth_done" =>
    /\ LookupFails => result = Err(LookupFailed(lookup(config.lookup_locations, req).err))
    /\ HeaderMalformed => result = Err(InvalidJwtHeader("InvalidToken"))
    /\ MatchesNoKeySet => result = Err(FailedToLocateProvider)

----------------------------------------------------------------------------
\* a cookie rule meets a cookie header that cannot be converted to a string
CookieUndecodable(loc, request) ==
  /\ loc.kind = "Cookie"
  /\ request.cookie # None
  /\ ~Unwrap(request.cookie).to_str_ok

\* every rule before rule i hands over to the next rule
HandedOverBefore(i) ==
  \A j \in 1..(i - 1) : RuleAbsent(Rules[j], req) \/ CookieUndecodable(Rules[j], req)

RulesAfter(i) == SubSeq(Rules, i + 1, Len(Rules))

\* C22 as stated: a credential source whose raw value cannot be decoded does
\* not fail the lookup: a cookie segment that fails to parse is skipped and
\* the remaining segments and rules are still examined, and a header value,
\* of a header rule or of the cookie header, that cannot be converted to a
\* string is skipped so that later rules are still consulted.
C22_UndecodableSourceIsSkipped ==
  pc = "lookup_done" =>
    \A i \in 1..Len(Rules) :
       HandedOverBefore(i) =>
         /\ (Rules[i].kind = "Cookie" /\ RuleYields(Rules[i], req)) =>
              result = Ok(RuleValue(Rules[i], req))
         /\ CookieUndecodable(Rules[i], req) => result = lookup(RulesAfter(i), req)
         /\ Unstringifiable(Rules[i], req) => result = lookup(RulesAfter(i), req)

\* C22 amended: a cookie segment that fails to parse is skipped and the
\* remaining segments and rules are still examined, and a cookie header that
\* cannot be converted to a string makes the cookie rule hand over to the
\* next rule; but a header rule whose header value cannot be converted to a
\* string fails the lookup with FailedToStringifyHeader and no later rule is
\* consulted.
C22_OnlyCookieSourcesAreSkipped ==
  pc = "lookup_done" =>
    \A i \in 1..Len(Rules) :
       HandedOverBefore(i) =>
         /\ (Rules[i].kind = "Cookie" /\ RuleYields(Rules[i], req)) =>
              result = Ok(RuleValue(Rules[i], req))
         /\ CookieUndecodable(Rules[i], req) => result = lookup(RulesAfter(i), req)
         /\ Unstringifiable(Rules[i], req) => result = Err("FailedToStringifyHeader")

C22_Witness ==
  /\ pc = "lookup_done"
  /\ Len(Rules) = 2
  /\ Rules[1].kind = "Cookie"
  /\ req.cookie # None
  /\ Unwrap(req.cookie).to_str_ok
  /\ Len(Unwrap(req.cookie).segments) = 2
  /\ ~Unwrap(req.cookie).segments[1].parse_ok
  /\ Unwrap(req.cookie).segments[2].name = Rules[1].name
  /\ Unstringifiable(Rules[2], req)
  /\ result = Ok(Unwrap(req.cookie).segments[2].value)

====
